---- MODULE Spec2Model ----
(***************************************************************************)
(* A model of paraphrasegen/model.py (Pooler, MLPLayer, Encoder) and of    *)
(* the batches paraphrasegen/dataset.py delivers to it.                    *)
(*                                                                         *)
(* Tensors are functions over 0-based index ranges, as in the source.      *)
(* Real numbers are kept exact: a rational is a pair <<num, den>> in       *)
(* lowest terms with den > 0, and <<0, 0>> is not-a-number.  Uniform draws *)
(* of torch.rand and the rate input_mask_rate are counted in tenths.       *)
(***************************************************************************)
EXTENDS Integers, Sequences, FiniteSets, TLC

VARIABLES
    input_mask_rate,  \* Encoder.input_mask_rate, in tenths
    batch,            \* the caller's batch: the five tensors of CRLDataModule.columns
    batch0,           \* history: the batch as the data provider delivered it
    step,             \* the step that ran last: "init" before any
    calls,            \* the forward passes of the last step, in order
    logged,           \* what the last step logged, in order: <<name, value>>
    returned,         \* what the last step returned
    negative_index,   \* the permutation the last training step drew
    loss_calls,       \* the argument triples the last step gave loss_fn
    pooler_type,      \* Pooler.pooler_type of the pooler under test
    outputs,          \* the backbone outputs handed to Pooler.forward
    attention_mask,   \* the mask handed to Pooler.forward
    pooler_output,    \* what Pooler.forward returned
    pooler_obj,       \* <<the result of the last Pooler(...) construction>>, or <<>>
    mlp_obj,          \* <<the result of the last MLPLayer(...) construction>>, or <<>>
    encoder_obj,      \* <<the result of the last Encoder(...) construction>>, or <<>>
    optimizer         \* the parameter groups configure_optimizers() gave encoder_obj, or <<>>

encoder_vars == <<input_mask_rate, batch, batch0, step, calls, logged, returned,
                  negative_index, loss_calls>>
pooler_vars == <<pooler_type, outputs, attention_mask, pooler_output>>
config_vars == <<pooler_obj, mlp_obj, encoder_obj, optimizer>>
vars == <<encoder_vars, pooler_vars, config_vars>>

(***************************************************************************)
(* Bounds of the model.                                                    *)
(***************************************************************************)
BatchSize == 2
max_seq_length == 3
NumLayers == 3
MaxMlpLayers == 2

Rows == 0 .. BatchSize - 1
Cols == 0 .. max_seq_length - 1

(***************************************************************************)
(* Exact arithmetic.                                                       *)
(***************************************************************************)
Abs(x) == IF x < 0 THEN -x ELSE x

RECURSIVE GCD(_, _)
GCD(a, b) == IF b = 0 THEN a ELSE GCD(b, a % b)

NaN == <<0, 0>>
IsNaN(q) == q[2] = 0

Rat(n, d) ==
    IF d = 0 THEN NaN
    ELSE LET g == GCD(Abs(n), Abs(d))
             s == IF d < 0 THEN -1 ELSE 1
         IN  <<(s * n) \div g, (s * d) \div g>>

RatAdd(p, q) == IF IsNaN(p) \/ IsNaN(q) THEN NaN
                ELSE Rat(p[1] * q[2] + q[1] * p[2], p[2] * q[2])
RatSub(p, q) == IF IsNaN(p) \/ IsNaN(q) THEN NaN
                ELSE Rat(p[1] * q[2] - q[1] * p[2], p[2] * q[2])
RatMul(p, q) == IF IsNaN(p) \/ IsNaN(q) THEN NaN
                ELSE Rat(p[1] * q[1], p[2] * q[2])
RatDiv(p, q) == IF IsNaN(p) \/ IsNaN(q) THEN NaN
                ELSE Rat(p[1] * q[2], p[2] * q[1])

RECURSIVE SumSeq(_)
SumSeq(s) == IF s = <<>> THEN 0 ELSE Head(s) + SumSeq(Tail(s))

RECURSIVE RatSumSeq(_)
RatSumSeq(s) == IF s = <<>> THEN <<0, 1>> ELSE RatAdd(Head(s), RatSumSeq(Tail(s)))

ISqrt(n) == CHOOSE r \in 0 .. n : r * r <= n /\ (r + 1) * (r + 1) > n

\* The tensor of n elements F(0), ..., F(n-1), n > 0, each computed once.
RECURSIVE Tensor(_, _)
Tensor(F(_), n) == IF n = 1 THEN 0 :> F(0)
                   ELSE Tensor(F, n - 1) @@ ((n - 1) :> F(n - 1))

\* The tensor of shape [BatchSize, max_seq_length] with the elements F(i, j).
Tensor2(F(_, _)) ==
    Tensor(LAMBDA i : Tensor(LAMBDA j : F(i, j), max_seq_length), BatchSize)

(***************************************************************************)
(* The data provider (dataset.py).  A sentence is a sequence of word       *)
(* ids; the tokenizer frames it with the boundary ids 101 and 102 and pads *)
(* with id 0 up to max_seq_length, the mask marking the real positions.    *)
(***************************************************************************)
\* The sentence pairs of the dataset, with their labels.
Dataset ==
    {[sentence1 |-> <<7>>, sentence2 |-> <<7>>, label |-> 1],
     [sentence1 |-> <<>>,  sentence2 |-> <<>>,  label |-> 1],
     [sentence1 |-> <<7>>, sentence2 |-> <<>>,  label |-> 0],
     [sentence1 |-> <<>>,  sentence2 |-> <<7>>, label |-> 0]}

tokenizer(s) ==
    [input_ids |->
        Tensor(LAMBDA j : IF j = 0 THEN 101
                          ELSE IF j <= Len(s) THEN s[j]
                          ELSE IF j = Len(s) + 1 THEN 102
                          ELSE 0, max_seq_length),
     attention_mask |->
        Tensor(LAMBDA j : IF j <= Len(s) + 1 THEN 1 ELSE 0, max_seq_length)]

convert_to_features(example_batch) ==
    [anchor_input_ids      |->
        Tensor(LAMBDA i : tokenizer(example_batch[i].sentence1).input_ids, BatchSize),
     anchor_attention_mask |->
        Tensor(LAMBDA i : tokenizer(example_batch[i].sentence1).attention_mask, BatchSize),
     target_input_ids      |->
        Tensor(LAMBDA i : tokenizer(example_batch[i].sentence2).input_ids, BatchSize),
     target_attention_mask |->
        Tensor(LAMBDA i : tokenizer(example_batch[i].sentence2).attention_mask, BatchSize),
     labels                |-> Tensor(LAMBDA i : example_batch[i].label, BatchSize)]

\* Every batch a dataloader can deliver: drop_last keeps each at BatchSize rows.
Batches == {convert_to_features(e) : e \in [Rows -> Dataset]}

\* train_dataloader: setup() keeps only the pairs of label 1 in the train split.
IsTrainBatch(b) == \A i \in Rows : b.labels[i] = 1

(***************************************************************************)
(* Randomness.  torch.rand draws one value of [0, 1) per position; the     *)
(* model draws each from RandValues (tenths).  torch.randperm draws a      *)
(* permutation of the row indices.                                         *)
(***************************************************************************)
RandValues == {2, 7}
MaskRates == {0, 5, 10}

RandTensors == [Rows -> [Cols -> RandValues]]
\* The draws a whole step is explored with: one value at every position of a pass.
StepRandTensors == {Tensor2(LAMBDA i, j : v) : v \in RandValues}
NoRand == <<>>
\* What a pass of a step can draw: nothing unless it corrupts.
StepDraws(do_mlm) == IF do_mlm THEN StepRandTensors ELSE {NoRand}

randperm == {f \in [Rows -> Rows] : \A i, k \in Rows : f[i] = f[k] => i = k}

(***************************************************************************)
(* Encoder.forward.                                                        *)
(***************************************************************************)
\* A mask that spares only the id 101.
sentence_mask_101_only(input_ids, rand) ==
    Tensor2(LAMBDA i, j :
        /\ rand[i][j] > input_mask_rate
        /\ input_ids[i][j] # 101)

sentence_mask(input_ids, rand) ==
    Tensor2(LAMBDA i, j :
        /\ rand[i][j] > input_mask_rate
        /\ input_ids[i][j] # 101
        /\ input_ids[i][j] # 102)

\* input_ids[sentence_mask] = 0: the tensor after the assignment.
masked_fill(input_ids, mask) ==
    Tensor2(LAMBDA i, j : IF mask[i][j] THEN 0 ELSE input_ids[i][j])

\* The embeddings the model's backbone can produce: integer norms (3, 4, 5)
\* and integer pairwise distances, so norms and cosines stay exact.
Embeddings == << <<3, 0>>, <<0, 4>>, <<3, 4>> >>

\* bert_model, pooler and net on one row: some fixed function of the ids and
\* the mask the backbone receives.
sentence_embedding(ids, mask) ==
    LET n == max_seq_length
        key == SumSeq([k \in 1 .. n |-> ids[k - 1] * mask[k - 1] + mask[k - 1]])
    IN  Embeddings[(key % Len(Embeddings)) + 1]

\* The rest of a forward pass, once input_ids holds ids.  tensor is the tensor
\* input_ids names when the pass returns; call is what the pass did;
\* pooler_output is its return value.
forward_backbone(input, ids, mask, do_mlm, rand) ==
    [tensor |-> ids,
     call   |-> [input          |-> input,
                 do_mlm         |-> do_mlm,
                 rand           |-> IF do_mlm THEN rand ELSE NoRand,
                 input_ids      |-> ids,
                 attention_mask |-> mask],
     pooler_output |->
         Tensor(LAMBDA i : sentence_embedding(ids[i], mask[i]), BatchSize)]

\* One forward pass; rand is what torch.rand delivers if the pass asks for it.
forward(input_ids, mask, do_mlm, rand) ==
    forward_backbone(input_ids,
                     IF do_mlm
                     THEN masked_fill(input_ids, sentence_mask(input_ids, rand))
                     ELSE input_ids,
                     mask, do_mlm, rand)

(***************************************************************************)
(* paraphrasegen.loss.  ContrastiveLoss is kept as an uninterpreted term   *)
(* of its three arguments; Similarity is the N x M matrix of cosines over  *)
(* the temperature.                                                        *)
(***************************************************************************)
temp == <<1, 20>>

loss_fn(anchor, target, negative) == [loss_of |-> <<anchor, target, negative>>]

Dot(a, b) == SumSeq([k \in 1 .. Len(a) |-> a[k] * b[k]])
VecNorm(a) == ISqrt(Dot(a, a))
cos(a, b) == Rat(Dot(a, b), VecNorm(a) * VecNorm(b))

Similarity(x, y) ==
    [i \in 1 .. Len(x) |-> [j \in 1 .. Len(y) |-> RatDiv(cos(x[i], y[j]), temp)]]

(***************************************************************************)
(* Tensor operations of the evaluation step.                               *)
(***************************************************************************)
\* t[labels == v]: the rows of t whose label is v, in order.
RECURSIVE BoolIndex(_, _, _, _)
BoolIndex(t, labels, v, n) ==
    IF n = 0 THEN <<>>
    ELSE LET rest == BoolIndex(t, labels, v, n - 1)
         IN  IF labels[n - 1] = v THEN Append(rest, t[n - 1]) ELSE rest

\* torch.norm(x - y) of two row lists: one number, the root of the sum of the
\* squares of every element of the difference.
torch_norm_diff(x, y) ==
    [sqrt_of |-> SumSeq([i \in 1 .. Len(x) |->
                    SumSeq([k \in 1 .. Len(x[i]) |->
                        (x[i][k] - y[i][k]) * (x[i][k] - y[i][k])])])]

\* .mean() of a tensor that holds a single number.
scalar_mean(v) == v

\* .mean() of a matrix of rationals: not-a-number when it has no element.
matrix_mean(m) ==
    LET rowsums == [i \in 1 .. Len(m) |-> RatSumSeq(m[i])]
        count == SumSeq([i \in 1 .. Len(m) |-> Len(m[i])])
    IN  RatDiv(RatSumSeq(rowsums), <<count, 1>>)

(***************************************************************************)
(* Encoder.training_step, _evaluate, validation_step, test_step.           *)
(***************************************************************************)
\* The loss of a training step, logged and returned.
training_step_loss(a, t, n, perm, loss) ==
    /\ batch' = [batch EXCEPT !.anchor_input_ids = a.tensor,
                              !.target_input_ids = t.tensor]
    /\ calls' = <<a.call, t.call, n.call>>
    /\ negative_index' = perm
    /\ loss_calls' = << <<a.pooler_output, t.pooler_output, n.pooler_output>> >>
    /\ logged' = << <<"loss/train", loss>> >>
    /\ returned' = loss

\* The negative pass: indexing by a tensor copies the rows, out of the anchor
\* tensor as it is after the anchor pass.
training_step_negative(a, t, n, perm) ==
    training_step_loss(a, t, n, perm,
                       loss_fn(a.pooler_output, t.pooler_output, n.pooler_output))

training_step_passes(a, t, perm, r3) ==
    training_step_negative(a, t,
        forward(Tensor(LAMBDA i : a.tensor[perm[i]], BatchSize),
                Tensor(LAMBDA i : batch.anchor_attention_mask[perm[i]], BatchSize),
                TRUE, r3),
        perm)

training_step ==
    \E r1 \in StepRandTensors, r2 \in StepRandTensors, r3 \in StepRandTensors,
       perm \in randperm :
        training_step_passes(
            forward(batch.anchor_input_ids, batch.anchor_attention_mask, TRUE, r1),
            forward(batch.target_input_ids, batch.target_attention_mask, TRUE, r2),
            perm, r3)

\* do_mlm of the two forward passes of _evaluate.
eval_do_mlm_default == TRUE

eval_do_mlm == FALSE

\* The headline metric with its operands exchanged.
hp_metric_swapped(pos_sim, neg_sim) == RatSub(neg_sim, pos_sim)

hp_metric(pos_sim, neg_sim) == RatSub(pos_sim, neg_sim)

evaluate_log(a, t, pos_diff, neg_diff, pos_sim, neg_sim) ==
    /\ batch' = [batch EXCEPT !.anchor_input_ids = a.tensor,
                              !.target_input_ids = t.tensor]
    /\ calls' = <<a.call, t.call>>
    /\ logged' = << <<"diff/pos", pos_diff>>, <<"diff/neg", neg_diff>>,
                    <<"sim/pos", pos_sim>>, <<"sim/neg", neg_sim>>,
                    <<"hp_metric", hp_metric(pos_sim, neg_sim)>> >>
    /\ returned' = "None"
    /\ negative_index' = <<>>
    /\ loss_calls' = <<>>

evaluate_metrics(a, t, pos_anchor_emb, pos_target_emb, neg_anchor_emb, neg_target_emb) ==
    evaluate_log(a, t,
                 scalar_mean(torch_norm_diff(pos_anchor_emb, pos_target_emb)),
                 scalar_mean(torch_norm_diff(neg_anchor_emb, neg_target_emb)),
                 matrix_mean(Similarity(pos_anchor_emb, pos_target_emb)),
                 matrix_mean(Similarity(neg_anchor_emb, neg_target_emb)))

evaluate_partition(a, t) ==
    evaluate_metrics(a, t,
                     BoolIndex(a.pooler_output, batch.labels, 1, BatchSize),
                     BoolIndex(t.pooler_output, batch.labels, 1, BatchSize),
                     BoolIndex(a.pooler_output, batch.labels, 0, BatchSize),
                     BoolIndex(t.pooler_output, batch.labels, 0, BatchSize))

evaluate ==
    \E r1 \in StepDraws(eval_do_mlm), r2 \in StepDraws(eval_do_mlm) :
        evaluate_partition(
            forward(batch.anchor_input_ids, batch.anchor_attention_mask,
                    eval_do_mlm, r1),
            forward(batch.target_input_ids, batch.target_attention_mask,
                    eval_do_mlm, r2))

(***************************************************************************)
(* The driver: a delivered batch, then any steps on it.                    *)
(***************************************************************************)
PoolerIdle ==
    /\ pooler_type = "none"
    /\ outputs = <<>>
    /\ attention_mask = <<>>
    /\ pooler_output = <<>>

ConfigIdle ==
    /\ pooler_obj = <<>>
    /\ mlp_obj = <<>>
    /\ encoder_obj = <<>>
    /\ optimizer = <<>>

EncoderIdle ==
    /\ input_mask_rate = 0
    /\ batch = <<>>
    /\ batch0 = <<>>
    /\ step = "init"
    /\ calls = <<>>
    /\ logged = <<>>
    /\ returned = "None"
    /\ negative_index = <<>>
    /\ loss_calls = <<>>

Init ==
    /\ input_mask_rate \in MaskRates
    /\ batch \in Batches
    /\ batch0 = batch
    /\ step = "init"
    /\ calls = <<>>
    /\ logged = <<>>
    /\ returned = "None"
    /\ negative_index = <<>>
    /\ loss_calls = <<>>
    /\ PoolerIdle
    /\ ConfigIdle

TrainingStep ==
    /\ IsTrainBatch(batch)
    /\ training_step
    /\ step' = "training_step"
    /\ UNCHANGED <<input_mask_rate, batch0, pooler_vars, config_vars>>

ValidationStep ==
    /\ evaluate
    /\ step' = "validation_step"
    /\ UNCHANGED <<input_mask_rate, batch0, pooler_vars, config_vars>>

TestStep ==
    /\ evaluate
    /\ step' = "test_step"
    /\ UNCHANGED <<input_mask_rate, batch0, pooler_vars, config_vars>>

Next == TrainingStep \/ ValidationStep \/ TestStep

Spec == Init /\ [][Next]_vars

(***************************************************************************)
(* A single forward pass on the anchor side of a delivered train batch,    *)
(* under every outcome of the draws.                                       *)
(***************************************************************************)
InitForward ==
    /\ input_mask_rate \in MaskRates
    /\ batch \in {b \in Batches : IsTrainBatch(b)}
    /\ batch0 = batch
    /\ step = "init"
    /\ calls = <<>>
    /\ logged = <<>>
    /\ returned = "None"
    /\ negative_index = <<>>
    /\ loss_calls = <<>>
    /\ PoolerIdle
    /\ ConfigIdle

Forward ==
    /\ step = "init"
    /\ \E do_mlm \in BOOLEAN, rand \in RandTensors :
        LET f == forward(batch.anchor_input_ids, batch.anchor_attention_mask,
                         do_mlm, rand)
        IN  /\ batch' = [batch EXCEPT !.anchor_input_ids = f.tensor]
            /\ calls' = <<f.call>>
            /\ returned' = f.pooler_output
    /\ step' = "forward"
    /\ UNCHANGED <<input_mask_rate, batch0, logged, negative_index, loss_calls,
                   pooler_vars, config_vars>>

NextForward == Forward

SpecForward == InitForward /\ [][NextForward]_vars

(***************************************************************************)
(* Properties of the forward pass and of the steps.                        *)
(***************************************************************************)
Boundary == {101, 102}
EvalSteps == {"validation_step", "test_step"}
CallIdx == 1 .. Len(calls)
Positions(t) == {<<i, j>> : i \in DOMAIN t, j \in Cols}

\* C1: in a forward pass with corruption enabled, a position that holds a
\* boundary id (101 or 102) holds the same id afterwards, whatever the draws,
\* and a position whose id changed held no boundary id and now holds 0.
C1_BoundaryKept ==
    \A c \in CallIdx : calls[c].do_mlm =>
        \A q \in Positions(calls[c].input) :
            LET old == calls[c].input[q[1]][q[2]]
                new == calls[c].input_ids[q[1]][q[2]]
            IN  /\ old \in Boundary => new = old
                /\ new # old => (new = 0 /\ old \notin Boundary)

\* C1 witness: a corrupting pass whose draw picked a boundary position and a
\* word position alike; the word was zeroed.
C1_Witness ==
    \E c \in CallIdx :
        /\ calls[c].do_mlm
        /\ \E q \in Positions(calls[c].input) :
            /\ calls[c].input[q[1]][q[2]] \in Boundary
            /\ calls[c].rand[q[1]][q[2]] > input_mask_rate
        /\ \E q \in Positions(calls[c].input) :
            /\ calls[c].input[q[1]][q[2]] \notin Boundary \cup {0}
            /\ calls[c].input_ids[q[1]][q[2]] = 0

\* C2: in a forward pass with corruption enabled, a non-boundary token is
\* zeroed exactly when its draw falls in the fraction input_mask_rate; with
\* rate 0 no id changes and with rate 1 every non-boundary id becomes 0.
C2_ZeroedAtRate ==
    \A c \in CallIdx : calls[c].do_mlm =>
        \A q \in Positions(calls[c].input) :
            LET old == calls[c].input[q[1]][q[2]]
                new == calls[c].input_ids[q[1]][q[2]]
                draw == calls[c].rand[q[1]][q[2]]
            IN  /\ old \notin Boundary \cup {0} =>
                    (new = 0 <=> draw < input_mask_rate)
                /\ input_mask_rate = 0 => new = old
                /\ (input_mask_rate = 10 /\ old \notin Boundary) => new = 0

\* C3: the permutation of a training step pairs every anchor with another
\* anchor: it is a permutation of the rows without a fixed point.
C3_NegativeIsOther ==
    step = "training_step" =>
        /\ negative_index \in randperm
        /\ \A i \in Rows : negative_index[i] # i

\* C4: a step leaves the caller's batch as it was delivered, and the negative
\* pass of a training step starts from the delivered anchor ids, permuted.
C4_BatchUnchanged ==
    /\ batch = batch0
    /\ step = "training_step" =>
        calls[3].input = [i \in Rows |-> batch0.anchor_input_ids[negative_index[i]]]

\* The value a step logged under a name, and the names it logged, in order.
Logged(name) == logged[CHOOSE k \in 1 .. Len(logged) : logged[k][1] = name][2]
LoggedNames == [k \in 1 .. Len(logged) |-> logged[k][1]]

\* The embeddings a forward pass returned, from what the backbone received.
CallEmbeddings(c) ==
    [i \in Rows |-> sentence_embedding(c.input_ids[i], c.attention_mask[i])]

RECURSIVE SetSum(_, _)
SetSum(S, f) == IF S = {} THEN 0
                ELSE LET x == CHOOSE x \in S : TRUE
                     IN  f[x] + SetSum(S \ {x}, f)

RECURSIVE RatSetSum(_, _)
RatSetSum(S, f) == IF S = {} THEN <<0, 1>>
                   ELSE LET x == CHOOSE x \in S : TRUE
                        IN  RatAdd(f[x], RatSetSum(S \ {x}, f))

\* The aligned pairs of one label, their distances and their similarities.
PairsOf(v) == {i \in Rows : batch.labels[i] = v}
PairDist(a, t) ==
    [i \in Rows |-> ISqrt(SumSeq([k \in 1 .. Len(a[i]) |->
                        (a[i][k] - t[i][k]) * (a[i][k] - t[i][k])]))]
PairSim(a, t) == [i \in Rows |-> RatDiv(cos(a[i], t[i]), temp)]

\* The logged distance of label v is the mean of the aligned pairs' distances.
DiffIsPairMean(v, name) ==
    LET a == CallEmbeddings(calls[1])
        t == CallEmbeddings(calls[2])
        n == Cardinality(PairsOf(v))
        total == SetSum(PairsOf(v), PairDist(a, t))
    IN  Logged(name).sqrt_of * n * n = total * total

\* The logged similarity of label v is the mean of the aligned pairs' similarities.
SimIsPairMean(v, name) ==
    LET a == CallEmbeddings(calls[1])
        t == CallEmbeddings(calls[2])
        n == Cardinality(PairsOf(v))
    IN  Logged(name) = RatDiv(RatSetSum(PairsOf(v), PairSim(a, t)), <<n, 1>>)

\* Identical anchor and target embeddings give distance 0, similarity 1/temp.
IdenticalGivesExtremes(v, dname, sname) ==
    LET a == CallEmbeddings(calls[1])
        t == CallEmbeddings(calls[2])
    IN  (\A i \in PairsOf(v) : a[i] = t[i]) =>
            /\ Logged(dname).sqrt_of = 0
            /\ Logged(sname) = RatDiv(<<1, 1>>, temp)

\* C5: an evaluation step logs, per label, the mean distance and the mean
\* similarity of exactly the aligned pairs (anchor_i, target_i) of that label;
\* identical anchor and target embeddings give diff/pos = 0, sim/pos = 1/temp.
C5_AlignedPairMeans ==
    step \in EvalSteps =>
        /\ PairsOf(1) # {} =>
            /\ DiffIsPairMean(1, "diff/pos")
            /\ SimIsPairMean(1, "sim/pos")
            /\ IdenticalGivesExtremes(1, "diff/pos", "sim/pos")
        /\ PairsOf(0) # {} =>
            /\ DiffIsPairMean(0, "diff/neg")
            /\ SimIsPairMean(0, "sim/neg")

\* C6: a training step computes one loss from the anchor, target and negative
\* embeddings, logs it once as loss/train and returns it; an evaluation step
\* logs diff/pos, diff/neg, sim/pos, sim/neg and hp_metric once each, with
\* hp_metric = sim/pos - sim/neg, and computes and logs no loss.
C6_MetricsOncePerStep ==
    /\ step = "training_step" =>
        /\ LoggedNames = <<"loss/train">>
        /\ Len(calls) = 3
        /\ loss_calls = << <<CallEmbeddings(calls[1]), CallEmbeddings(calls[2]),
                             CallEmbeddings(calls[3])>> >>
        /\ logged[1][2] = loss_fn(loss_calls[1][1], loss_calls[1][2], loss_calls[1][3])
        /\ returned = logged[1][2]
    /\ step \in EvalSteps =>
        /\ Len(logged) = 5
        /\ {LoggedNames[k] : k \in 1 .. Len(logged)} =
               {"diff/pos", "diff/neg", "sim/pos", "sim/neg", "hp_metric"}
        /\ Logged("hp_metric") = RatSub(Logged("sim/pos"), Logged("sim/neg"))
        /\ loss_calls = <<>>
        /\ returned = "None"

\* C6 witness: an evaluation step that logged a headline metric above zero.
C6_Witness ==
    /\ step \in EvalSteps
    /\ ~IsNaN(Logged("hp_metric"))
    /\ Logged("hp_metric")[1] > 0

\* The passes of the last step, as the claim C10 counts them.
C10_Passes ==
    /\ step \in EvalSteps =>
        /\ Len(calls) = 2
        /\ \A c \in CallIdx : ~calls[c].do_mlm /\ calls[c].rand = NoRand
        /\ calls[1].input_ids = batch.anchor_input_ids
        /\ calls[1].attention_mask = batch.anchor_attention_mask
        /\ calls[2].input_ids = batch.target_input_ids
        /\ calls[2].attention_mask = batch.target_attention_mask
    /\ step = "training_step" =>
        /\ Len(calls) = 3
        /\ \A c \in CallIdx : calls[c].do_mlm /\ calls[c].rand \in RandTensors
        /\ calls[1].attention_mask = batch.anchor_attention_mask
        /\ calls[2].attention_mask = batch.target_attention_mask
        /\ calls[3].input = [i \in Rows |-> batch.anchor_input_ids[negative_index[i]]]
        /\ calls[3].attention_mask =
               [i \in Rows |-> batch.anchor_attention_mask[negative_index[i]]]

\* An evaluation step that follows an evaluation step logs what that one logged.
C10_Repeatable ==
    (step \in EvalSteps /\ step' \in EvalSteps) => (logged' = logged /\ batch' = batch)

\* C10: an evaluation step makes two forward passes (anchor, target) without
\* corruption: the backbone receives the batch's ids, no draw is made, and a
\* second evaluation step on the batch logs the same metrics; a training step
\* makes three passes (anchor, target, permuted anchor), all corrupting.
C10_EvalDeterministic == [](C10_Passes) /\ [][C10_Repeatable]_vars

\* C10 witness: a test step has run on a batch of both labels that holds a
\* word a corrupting pass could have zeroed.
C10_Witness ==
    /\ step = "test_step"
    /\ input_mask_rate < 7
    /\ \E i \in Rows : batch.anchor_input_ids[i][1] = 7
    /\ \E i \in Rows : batch.labels[i] = 1
    /\ \E i \in Rows : batch.labels[i] = 0

(***************************************************************************)
(* Pooler.forward.  A hidden state is one number per token: every          *)
(* operation of the pooler acts alike on each element of the hidden axis.  *)
(***************************************************************************)
PoolerTypes == {"cls", "cls_before_pooler", "avg", "avg_top2", "avg_first_last"}
AveragingTypes == {"avg", "avg_top2", "avg_first_last"}

\* (x * attention_mask.unsqueeze(-1)).sum(1) of one row, ignoring the mask.
unmasked_sum(x, mask_row) ==
    RatSumSeq([k \in 1 .. max_seq_length |-> x[k - 1]])

\* (x * attention_mask.unsqueeze(-1)).sum(1) of one row.
masked_sum(x, mask_row) ==
    RatSumSeq([k \in 1 .. max_seq_length |-> RatMul(x[k - 1], <<mask_row[k - 1], 1>>)])

\* attention_mask.sum(-1) of one row.
mask_count(mask_row) == SumSeq([k \in 1 .. max_seq_length |-> mask_row[k - 1]])

\* x.sum(1) / attention_mask.sum(-1).unsqueeze(-1), row by row.
masked_mean(x, mask) ==
    Tensor(LAMBDA i : RatDiv(masked_sum(x[i], mask[i]), <<mask_count(mask[i]), 1>>),
           BatchSize)

\* (x + y) / 2.0, element by element.
half_sum(x, y) == Tensor2(LAMBDA i, j : RatDiv(<<x[i][j] + y[i][j], 1>>, <<2, 1>>))

as_float(x) == Tensor2(LAMBDA i, j : <<x[i][j], 1>>)

Pooler_forward(type, mask, out) ==
    IF type \in {"cls_before_pooler", "cls"}
    THEN Tensor(LAMBDA i : <<out.last_hidden_state[i][0], 1>>, BatchSize)
    ELSE IF type = "avg"
    THEN masked_mean(as_float(out.last_hidden_state), mask)
    ELSE IF type = "avg_first_last"
    THEN masked_mean(half_sum(out.hidden_states[0],
                              out.hidden_states[NumLayers - 1]), mask)
    ELSE IF type = "avg_top2"
    THEN masked_mean(half_sum(out.hidden_states[NumLayers - 1],
                              out.hidden_states[NumLayers - 2]), mask)
    ELSE "NotImplementedError"

\* The layers a backbone output is drawn from: two tensors of distinct values.
LayerSet == {Tensor2(LAMBDA i, j : 2 * j + i + 1),
             Tensor2(LAMBDA i, j : 7 - 3 * j + 2 * i)}

\* The outputs of the backbone: last_hidden_state is the last of hidden_states.
BackboneOutputs ==
    {[last_hidden_state |-> hs[NumLayers - 1],
      pooler_output     |-> "unused",
      hidden_states     |-> hs] : hs \in [0 .. NumLayers - 1 -> LayerSet]}

\* The masks: any mask on row 0, every position real on the other rows.
MaskTensors ==
    {Tensor2(LAMBDA i, j : IF i = 0 THEN m[j] ELSE 1) : m \in [Cols -> {0, 1}]}

InitPool ==
    /\ pooler_type \in PoolerTypes
    /\ outputs \in BackboneOutputs
    /\ attention_mask \in MaskTensors
    /\ pooler_output = <<>>
    /\ EncoderIdle
    /\ ConfigIdle

PoolerForward ==
    /\ pooler_output = <<>>
    /\ pooler_output' = Pooler_forward(pooler_type, attention_mask, outputs)
    /\ UNCHANGED <<pooler_type, outputs, attention_mask, encoder_vars, config_vars>>

NextPool == PoolerForward

SpecPool == InitPool /\ [][NextPool]_vars

\* The tensor an averaging pooler averages: the last layer, or the mean of the
\* two layers its type names.
PooledLayers ==
    IF pooler_type = "avg" THEN <<outputs.last_hidden_state, outputs.last_hidden_state>>
    ELSE IF pooler_type = "avg_first_last"
    THEN <<outputs.hidden_states[0], outputs.hidden_states[NumLayers - 1]>>
    ELSE <<outputs.hidden_states[NumLayers - 1], outputs.hidden_states[NumLayers - 2]>>

Unmasked(i) == {j \in Cols : attention_mask[i][j] = 1}

\* The mean over the positions U of row i of the layer-averaged hidden state.
MeanOver(U, i) ==
    Rat(SetSum(U, [j \in Cols |-> PooledLayers[1][i][j] + PooledLayers[2][i][j]]),
        2 * Cardinality(U))

\* C9: an averaging pooler returns, per row, the mean of the (layer-averaged)
\* hidden states over the unmasked positions alone: over all positions under
\* an all-ones mask, the hidden state at k when k alone is unmasked, and the
\* avg result of the layer when the two layers of avg_top2 or avg_first_last
\* are the same.
C9_MaskedPositionsIgnored ==
    (pooler_type \in AveragingTypes /\ pooler_output # <<>>) =>
        \A i \in Rows : Unmasked(i) # {} =>
            /\ pooler_output[i] = MeanOver(Unmasked(i), i)
            /\ Unmasked(i) = Cols => pooler_output[i] = MeanOver(Cols, i)
            /\ \A k \in Cols : Unmasked(i) = {k} =>
                   pooler_output[i] =
                       Rat(PooledLayers[1][i][k] + PooledLayers[2][i][k], 2)
            /\ PooledLayers[1] = PooledLayers[2] =>
                   pooler_output[i] =
                       Rat(SetSum(Unmasked(i), PooledLayers[1][i]),
                           Cardinality(Unmasked(i)))

\* C9 witness: avg_top2 has pooled two different layers under a mask that
\* leaves only position 1 of row 0 unmasked.
C9_Witness ==
    /\ pooler_type = "avg_top2"
    /\ pooler_output # <<>>
    /\ Unmasked(0) = {1}
    /\ PooledLayers[1] # PooledLayers[2]

(***************************************************************************)
(* Construction: Pooler.__init__, MLPLayer.__init__, Encoder.__init__, and *)
(* Encoder.configure_optimizers.  A construction yields the object, or the *)
(* exception it raised.  Weight decay is counted in hundredths.            *)
(***************************************************************************)
\* nd in n, for two strings.
IsSubstring(nd, n) ==
    \E k \in 1 .. Len(n) - Len(nd) + 1 : SubSeq(n, k, k + Len(nd) - 1) = nd

PoolerNames == PoolerTypes \cup {"max", "CLS"}
ActivationNames == {"GELU", "ReLU", "mish", "leaky_relu", "gelu", "tanh"}
HiddenDims == UNION {[1 .. n -> {768}] : n \in 1 .. MaxMlpLayers}
WeightDecays == {0, 1}

Pooler_init(type) ==
    IF type \in {"cls", "cls_before_pooler", "avg", "avg_top2", "avg_first_last"}
    THEN [ok |-> TRUE, args |-> type, pooler_type |-> type]
    ELSE [ok |-> FALSE, args |-> type, error |-> "AssertionError",
          message |-> "unrecognized_pooling_type: " \o type]

\* The names the branches of MLPLayer.__init__ bind activation_fn for.
BoundActivations == {"GELU", "ReLU", "mish", "leaky_relu"}

\* What the interpreter says of a local read before any assignment to it; the
\* wording is the interpreter's and differs between its versions.
UnboundLocalMessages ==
    {"local variable 'activation_fn' referenced before assignment",
     "cannot access local variable 'activation_fn' where it is not associated with a value"}

\* The modules of self.net, in order.
RECURSIVE mlp_layers_list(_, _)
mlp_layers_list(hidden_dims, activation) ==
    IF hidden_dims = <<>> THEN <<>>
    ELSE mlp_layers_list(SubSeq(hidden_dims, 1, Len(hidden_dims) - 1), activation)
         \o <<"Linear", "LayerNorm", activation>>

MLPLayer_init(hidden_dims, activation, unbound_message) ==
    IF activation \in BoundActivations
    THEN [ok |-> TRUE, args |-> activation,
          net |-> mlp_layers_list(hidden_dims, activation)]
    ELSE [ok |-> FALSE, args |-> activation, error |-> "UnboundLocalError",
          message |-> unbound_message]

\* The parameters of one module of a Sequential, named by its 0-based index.
module_parameters(prefix, net, k) ==
    IF net[k] = "Linear"
    THEN <<[name |-> prefix \o ToString(k - 1) \o ".weight", kind |-> "weight"],
           [name |-> prefix \o ToString(k - 1) \o ".bias", kind |-> "bias"]>>
    ELSE IF net[k] = "LayerNorm"
    THEN <<[name |-> prefix \o ToString(k - 1) \o ".weight", kind |-> "norm_scale"],
           [name |-> prefix \o ToString(k - 1) \o ".bias", kind |-> "bias"]>>
    ELSE <<>>

RECURSIVE sequential_parameters(_, _, _)
sequential_parameters(prefix, net, n) ==
    IF n = 0 THEN <<>>
    ELSE sequential_parameters(prefix, net, n - 1) \o module_parameters(prefix, net, n)

\* The parameters of the pretrained backbone, under the attribute bert_model.
bert_model_parameters ==
    <<[name |-> "bert_model.embeddings.word_embeddings.weight", kind |-> "weight"],
      [name |-> "bert_model.embeddings.LayerNorm.weight", kind |-> "norm_scale"],
      [name |-> "bert_model.embeddings.LayerNorm.bias", kind |-> "bias"],
      [name |-> "bert_model.encoder.layer.0.output.dense.weight", kind |-> "weight"],
      [name |-> "bert_model.encoder.layer.0.output.dense.bias", kind |-> "bias"],
      [name |-> "bert_model.encoder.layer.0.output.LayerNorm.weight",
       kind |-> "norm_scale"],
      [name |-> "bert_model.encoder.layer.0.output.LayerNorm.bias", kind |-> "bias"],
      [name |-> "bert_model.pooler.dense.weight", kind |-> "weight"],
      [name |-> "bert_model.pooler.dense.bias", kind |-> "bias"]>>

\* Encoder(...): the pooler and the projection head are built with the
\* encoder; the head always with the default activation.
Encoder_build(pooler, mlp, weight_decay) ==
    IF ~pooler.ok THEN [ok |-> FALSE, error |-> pooler.error, message |-> pooler.message]
    ELSE IF ~mlp.ok THEN [ok |-> FALSE, error |-> mlp.error, message |-> mlp.message]
    ELSE [ok |-> TRUE, pooler |-> pooler, net |-> mlp,
          hparams |-> [weight_decay |-> weight_decay]]

Encoder_init(type, mlp_layers, weight_decay, unbound_message) ==
    Encoder_build(Pooler_init(type),
                  MLPLayer_init(mlp_layers, "GELU", unbound_message),
                  weight_decay)

\* self.named_parameters(): the backbone's, then those of self.net.net.
named_parameters(encoder) ==
    bert_model_parameters
    \o sequential_parameters("net.net.", encoder.net.net, Len(encoder.net.net))

no_decay == <<"bias", "LayerNorm.weight">>

any_no_decay(n) == \E k \in 1 .. Len(no_decay) : IsSubstring(no_decay[k], n)

configure_optimizers(encoder) ==
    <<[params |-> SelectSeq([k \in 1 .. Len(named_parameters(encoder)) |->
                                 named_parameters(encoder)[k].name],
                            LAMBDA n : ~any_no_decay(n)),
       weight_decay |-> encoder.hparams.weight_decay],
      [params |-> SelectSeq([k \in 1 .. Len(named_parameters(encoder)) |->
                                 named_parameters(encoder)[k].name],
                            LAMBDA n : any_no_decay(n)),
       weight_decay |-> 0]>>

InitConfig ==
    /\ pooler_obj = <<>>
    /\ mlp_obj = <<>>
    /\ encoder_obj = <<>>
    /\ optimizer = <<>>
    /\ EncoderIdle
    /\ PoolerIdle

ConstructPooler ==
    /\ \E type \in PoolerNames : pooler_obj' = <<Pooler_init(type)>>
    /\ UNCHANGED <<mlp_obj, encoder_obj, optimizer, encoder_vars, pooler_vars>>

ConstructMLPLayer ==
    /\ \E hidden_dims \in HiddenDims, activation \in ActivationNames,
          msg \in UnboundLocalMessages :
            mlp_obj' = <<MLPLayer_init(hidden_dims, activation, msg)>>
    /\ UNCHANGED <<pooler_obj, encoder_obj, optimizer, encoder_vars, pooler_vars>>

ConstructEncoder ==
    /\ \E type \in PoolerNames, mlp_layers \in HiddenDims, wd \in WeightDecays,
          msg \in UnboundLocalMessages :
            encoder_obj' = <<Encoder_init(type, mlp_layers, wd, msg)>>
    /\ optimizer' = <<>>
    /\ UNCHANGED <<pooler_obj, mlp_obj, encoder_vars, pooler_vars>>

ConfigureOptimizers ==
    /\ encoder_obj # <<>>
    /\ encoder_obj[1].ok
    /\ optimizer' = configure_optimizers(encoder_obj[1])
    /\ UNCHANGED <<pooler_obj, mlp_obj, encoder_obj, encoder_vars, pooler_vars>>

NextConfig ==
    ConstructPooler \/ ConstructMLPLayer \/ ConstructEncoder \/ ConfigureOptimizers

SpecConfig == InitConfig /\ [][NextConfig]_vars

\* The parameters of the constructed encoder and the groups that hold a name.
EncoderParameters == named_parameters(encoder_obj[1])
ParameterIdx == 1 .. Len(EncoderParameters)
GroupsHolding(n) ==
    {g \in 1 .. Len(optimizer) :
        \E k \in 1 .. Len(optimizer[g].params) : optimizer[g].params[k] = n}
Occurrences(n) ==
    SumSeq([g \in 1 .. Len(optimizer) |->
        Cardinality({k \in 1 .. Len(optimizer[g].params) : optimizer[g].params[k] = n})])

\* The two groups hold every named parameter exactly once.
C7_Partition ==
    optimizer # <<>> =>
        /\ Len(optimizer) = 2
        /\ \A k \in ParameterIdx : Occurrences(EncoderParameters[k].name) = 1
        /\ \A g \in 1 .. Len(optimizer) : \A k \in 1 .. Len(optimizer[g].params) :
               \E q \in ParameterIdx : EncoderParameters[q].name = optimizer[g].params[k]

\* Every bias and every normalization scale is in a group of weight decay 0.
C7_NoDecayForBiasAndNorm ==
    optimizer # <<>> =>
        \A k \in ParameterIdx :
            EncoderParameters[k].kind \in {"bias", "norm_scale"} =>
                \A g \in GroupsHolding(EncoderParameters[k].name) :
                    optimizer[g].weight_decay = 0

\* C7: the two parameter groups of configure_optimizers partition the named
\* parameters, and every bias and every normalization scale, those of the
\* projection head included, is in the group whose weight decay is 0.
C7_GroupsPartitionAndExempt == C7_Partition /\ C7_NoDecayForBiasAndNorm

\* A construction with a name outside Known failed with a message that names
\* the value; one with a name inside Known gave the object.
FailsNaming(obj, Known) ==
    obj # <<>> =>
        IF obj[1].args \in Known THEN obj[1].ok
        ELSE ~obj[1].ok /\ IsSubstring(obj[1].args, obj[1].message)

\* C8: constructing a Pooler with an unrecognized pooling name, or an MLPLayer
\* with an unrecognized activation name, fails at once with an error that
\* names the bad value; the five pooling names and the supported activation
\* names construct.
C8_ConfigErrorsNameValue ==
    /\ FailsNaming(pooler_obj, PoolerTypes)
    /\ FailsNaming(mlp_obj, BoundActivations)

====
